---- MODULE Spec2Model ----
(***************************************************************************)
(* Model of yapf/yapflib/split_penalty.py: the pass that annotates the     *)
(* leaves (tokens) of a lib2to3 parse tree with split penalties.           *)
(*                                                                         *)
(* A tree is a nested record; a node is addressed by its path from the     *)
(* root (the sequence of 1-based child positions).  The pass is a stack    *)
(* machine: the stack is the continuation of the recursive visitor, its    *)
(* head the call executed next.  A handler Visit_x replaces its own frame  *)
(* by the calls its body makes, in the order the body makes them (every    *)
(* handler's control flow depends on the shape of the tree only).          *)
(***************************************************************************)
EXTENDS Integers, Sequences, FiniteSets, TLC

\* ---------------------------------------------------------------- constants

UNBREAKABLE == 1000000

STRONGLY_CONNECTED == 1000

ARITHMETIC_EXPRESSION == 42

\* Python's None: the value of an annotation that is absent or was cleared.
\* No penalty of the program is negative; every comparison below tests None
\* explicitly before it compares numbers.
None == -1

\* ------------------------------------------------------------------- bounds

\* Longest run of trailers in a generated power node.
MaxTrailers == 3

\* Longest chain of comprehension clauses (for/if) in a generated comprehension.
MaxClauses == 3

\* How many times ComputeSplitPenalties is called on the same tree.
MaxRuns == 2

\* ------------------------------------------------------------ pytree nodes

Leaf(type, value) == [leaf |-> TRUE, type |-> type, value |-> value, children |-> <<>>]

Node(type, children) == [leaf |-> FALSE, type |-> type, value |-> "", children |-> children]

RECURSIVE NodeAt(_, _)
NodeAt(t, path) ==
  IF path = <<>> THEN t ELSE NodeAt(t.children[Head(path)], Tail(path))

RECURSIVE PathsUnder(_, _)
PathsUnder(t, path) ==
  {path} \cup UNION { PathsUnder(t.children[i], Append(path, i)) : i \in 1..Len(t.children) }

Parent(path) == SubSeq(path, 1, Len(path) - 1)

IsPrefix(p, q) == Len(p) <= Len(q) /\ SubSeq(q, 1, Len(p)) = p

\* ------------------------------------------------------------------ tokens

NAME(v) == Leaf("NAME", v)

NUMBER(v) == Leaf("NUMBER", v)

COLON == Leaf("COLON", ":")

COMMA == Leaf("COMMA", ",")

DOT == Leaf("DOT", ".")

LPAR == Leaf("LPAR", "(")

RPAR == Leaf("RPAR", ")")

LSQB == Leaf("LSQB", "[")

RSQB == Leaf("RSQB", "]")

LBRACE == Leaf("LBRACE", "{")

RBRACE == Leaf("RBRACE", "}")

PLUS == Leaf("PLUS", "+")

STAR == Leaf("STAR", "*")

LESS == Leaf("LESS", "<")

DOUBLESTAR == Leaf("DOUBLESTAR", "**")

RARROW == Leaf("RARROW", "->")

NEWLINE == Leaf("NEWLINE", "\n")

\* ------------------------------------------------- grammar-conformant inputs

\* trailer ::= '(' [arglist] ')' | '[' subscriptlist ']' | '.' NAME
AttrTrailer == Node("trailer", <<DOT, NAME("b")>>)

EmptyCallTrailer == Node("trailer", <<LPAR, RPAR>>)

CallTrailer == Node("trailer", <<LPAR, NUMBER("1"), RPAR>>)

IndexTrailer == Node("trailer", <<LSQB, NUMBER("2"), RSQB>>)

TrailerKinds == {AttrTrailer, EmptyCallTrailer, CallTrailer, IndexTrailer}

TrailerRuns == UNION { [1..k -> TrailerKinds] : k \in 1..MaxTrailers }

\* power ::= atom trailer* ['**' factor]
Power(run) == Node("power", <<NAME("a")>> \o run)

PowerExp(run) == Node("power", <<NAME("a")>> \o run \o <<DOUBLESTAR, NUMBER("3")>>)

\* atom ::= '(' [yield_expr|testlist_gexp] ')' | '[' [listmaker] ']' | ...
Paren(e) == Node("atom", <<LPAR, e, RPAR>>)

\* arith_expr ::= term (('+'|'-') term)*
Sum(l, r) == Node("arith_expr", <<l, PLUS, r>>)

\* term ::= factor (('*'|'/'|'%'|'//') factor)*
Product(l, r) == Node("term", <<l, STAR, r>>)

\* comparison ::= expr (comp_op expr)*
Compare(l, r) == Node("comparison", <<l, LESS, r>>)

PowerInputs ==
  UNION { {Power(run), PowerExp(run), Paren(Power(run)), Sum(NAME("x"), Power(run))}
          : run \in TrailerRuns }

\* comp_for ::= 'for' exprlist 'in' testlist_safe [comp_iter]
\* comp_if  ::= 'if' old_test [comp_iter]
ClauseKinds == {"for", "if", "ifcmp"}

ClauseRuns ==
  { r \in UNION { [1..k -> ClauseKinds] : k \in 1..MaxClauses } : r[1] = "for" }

RECURSIVE CompIter(_, _)
CompIter(r, i) ==
  LET rest == IF i < Len(r) THEN <<CompIter(r, i + 1)>> ELSE <<>>
  IN  CASE r[i] = "for" ->
             Node("comp_for", <<NAME("for"), NAME("x"), NAME("in"), NAME("y")>> \o rest)
        [] r[i] = "if" ->
             Node("comp_if", <<NAME("if"), NAME("c")>> \o rest)
        [] OTHER ->
             Node("comp_if", <<NAME("if"), Compare(NAME("c"), NAME("d"))>> \o rest)

\* listmaker ::= test ( comp_for | (',' test)* [','] )
ListComp(elt, clause) == Node("atom", <<LSQB, Node("listmaker", <<elt, clause>>), RSQB>>)

\* [v for v in <iterable>]
CompOver(iterable) ==
  ListComp(NAME("v"),
           Node("comp_for", <<NAME("for"), NAME("v"), NAME("in"), iterable>>))

\* { <key>: 2 }
DictKey(key) ==
  Node("atom", <<LBRACE, Node("dictsetmaker", <<key, COLON, NUMBER("2")>>), RBRACE>>)

CompInputs ==
  UNION { {ListComp(NAME("e"), CompIter(r, 1)),
           Sum(NAME("n"), ListComp(NAME("e"), CompIter(r, 1))),
           CompOver(Sum(NAME("n"), ListComp(NAME("e"), CompIter(r, 1)))),
           DictKey(ListComp(NAME("e"), CompIter(r, 1))),
           CompOver(DictKey(ListComp(NAME("e"), CompIter(r, 1))))}
          : r \in ClauseRuns }

Suite == Node("simple_stmt", <<NAME("pass"), NEWLINE>>)

\* classdef ::= 'class' NAME ['(' [arglist] ')'] ':' suite
ClassInputs ==
  { Node("classdef", <<NAME("class"), NAME("Foo"), COLON, Suite>>),
    Node("classdef", <<NAME("class"), NAME("Foo"), LPAR, RPAR, COLON, Suite>>),
    Node("classdef", <<NAME("class"), NAME("Foo"), LPAR, NAME("Base"), RPAR, COLON, Suite>>) }

\* funcdef ::= 'def' NAME parameters ['->' test] ':' suite
\* parameters ::= '(' [typedargslist] ')'
FuncInputs ==
  { Node("funcdef", <<NAME("def"), NAME("f"),
                      Node("parameters", <<LPAR, RPAR>>), COLON, Suite>>),
    Node("funcdef", <<NAME("def"), NAME("f"),
                      Node("parameters", <<LPAR, NAME("p"), RPAR>>), COLON, Suite>>),
    Node("funcdef", <<NAME("def"), NAME("f"),
                      Node("parameters", <<LPAR, RPAR>>), RARROW, NAME("int"),
                      COLON, Suite>>) }

\* lambdef ::= 'lambda' [varargslist] ':' test
VarArgs == Node("varargslist", <<NAME("x"), COMMA, NAME("y")>>)

LambdaBodies ==
  { NAME("x"), Sum(NAME("x"), NAME("y")), Sum(Product(NAME("x"), NAME("y")), NAME("z")),
    Compare(NAME("x"), Sum(NAME("y"), NAME("z"))) }

Lambdas ==
  UNION { {Node("lambdef", <<NAME("lambda"), COLON, b>>),
           Node("lambdef", <<NAME("lambda"), NAME("x"), COLON, b>>),
           Node("lambdef", <<NAME("lambda"), VarArgs, COLON, b>>)} : b \in LambdaBodies }

LambdaInputs == Lambdas \cup { CompOver(l) : l \in Lambdas }

\* dotted_name ::= NAME ('.' NAME)*
DottedInputs ==
  { Node("import_name",
         <<NAME("import"), Node("dotted_name", <<NAME("a"), DOT, NAME("b")>>)>>),
    Node("import_name",
         <<NAME("import"),
           Node("dotted_name", <<NAME("a"), DOT, NAME("b"), DOT, NAME("c")>>)>>) }

\* dictsetmaker ::= (test ':' test (comp_for | (',' test ':' test)* [','])) | ...
DictInputs ==
  { Node("atom", <<LBRACE,
                   Node("dictsetmaker", <<NUMBER("1"), COLON, NUMBER("2"), COMMA,
                                          NUMBER("3"), COLON, NUMBER("4")>>),
                   RBRACE>>),
    DictKey(Power(<<AttrTrailer>>)),
    DictKey(Sum(NAME("k"), NAME("l"))) }

\* subscript ::= test | [test] ':' [test] [sliceop]
SliceInputs ==
  { Node("power", <<NAME("a"),
                    Node("trailer", <<LSQB,
                                      Node("subscript", <<NUMBER("1"), COLON, NUMBER("2")>>),
                                      RSQB>>)>>),
    Node("power", <<NAME("a"),
                    Node("trailer", <<LSQB,
                                      Node("subscript", <<Sum(NAME("i"), NAME("j")), COLON>>),
                                      RSQB>>),
                    AttrTrailer>>) }

\* Expressions that combine the rules: a.b + a.b, x * (a.b.b), (a.b.b).b, a.b.b(1)[2]
\* bare and parenthesized, f(x + y).b, [v for v in x + y], [v for v in a.b()],
\* x + y < z * w.
MixedInputs ==
  { Sum(Power(<<AttrTrailer>>), Power(<<AttrTrailer>>)),
    Product(NAME("x"), Paren(Power(<<AttrTrailer, AttrTrailer>>))),
    Node("power", <<Paren(Power(<<AttrTrailer, AttrTrailer>>)), AttrTrailer>>),
    Power(<<AttrTrailer, AttrTrailer, CallTrailer, IndexTrailer>>),
    Paren(Power(<<AttrTrailer, AttrTrailer, CallTrailer, IndexTrailer>>)),
    Node("power", <<NAME("f"),
                    Node("trailer", <<LPAR, Sum(NAME("x"), NAME("y")), RPAR>>),
                    AttrTrailer>>),
    CompOver(Sum(NAME("x"), NAME("y"))),
    CompOver(Power(<<AttrTrailer, EmptyCallTrailer>>)),
    Compare(Sum(NAME("x"), NAME("y")), Product(NAME("z"), NAME("w"))) }

Trees ==
  PowerInputs \cup CompInputs \cup ClassInputs \cup FuncInputs \cup LambdaInputs
    \cup DottedInputs \cup DictInputs \cup SliceInputs \cup MixedInputs

\* -------------------------------------------------------------------- state

VARIABLES
  tree,       \* the parse tree handed to ComputeSplitPenalties (never reshaped)
  py,         \* the interpreter's major version: 2 or 3
  pen,        \* leaf path -> its SPLIT_PENALTY annotation (None when absent)
  pc,         \* "idle", "running", "done" (returned) or "raised" (left by TypeError)
  stack,      \* the pending calls of the visitor, next call first
  runs,       \* calls of ComputeSplitPenalties made so far
  prev,       \* observation: pen when the previous call ended
  attempted,  \* observation: leaf -> largest value a rule tried to give it in this call
  since,      \* observation: the same, counted from the leaf's last clear
  cleared     \* observation: the leaves cleared so far in this call

vars == <<tree, py, pen, pc, stack, runs, prev, attempted, since, cleared>>

At(path) == NodeAt(tree, path)

Children(path) == At(path).children

NodeName(path) == At(path).type

Child(path, i) == Append(path, i)

LastChild(path) == Append(path, Len(Children(path)))

Leaves == { p \in PathsUnder(tree, <<>>) : At(p).leaf }

LeavesUnder(path) == { p \in Leaves : IsPrefix(path, p) }

Unannotated == [l \in Leaves |-> None]

\* -------------------------------------------------------------------- calls

Call(op, node, val, by) == [op |-> op, node |-> node, val |-> val, by |-> by]

VisitCall(node) == Call("Visit", node, None, node)

\* pytree_visitor.PyTreeVisitor.DefaultNodeVisit: visit each child in order.
DefaultNodeVisitCalls(node) ==
  [i \in 1..Len(Children(node)) |-> VisitCall(Child(node, i))]

SetUnbreakable(node, by) == <<Call("RecAnnotate", node, UNBREAKABLE, by)>>

\* _SetStronglyConnected(*node.children[from - 1:])
SetStronglyConnectedFrom(node, from, by) ==
  [i \in 1..(Len(Children(node)) - from + 1) |->
     Call("RecAnnotate", Child(node, from + i - 1), STRONGLY_CONNECTED, by)]

SetStronglyConnected(node, by) == <<Call("RecAnnotate", node, STRONGLY_CONNECTED, by)>>

SetUnbreakableOnChildren(node, num_children) ==
  DefaultNodeVisitCalls(node)
    \o [i \in 1..(num_children - 1) |->
          Call("RecAnnotate", Child(node, i + 1), UNBREAKABLE, node)]

SetArithmeticExpression(node) == <<Call("RecArithmeticExpression", node, ARITHMETIC_EXPRESSION, node)>>

RECURSIVE FirstChildNode(_)
FirstChildNode(node) ==
  IF At(node).leaf THEN node ELSE FirstChildNode(Child(node, 1))

\* --------------------------------------------------------- handler bodies

classdef_calls(node) ==
  SetUnbreakable(Child(node, 2), node)
    \o (IF Len(Children(node)) > 4 THEN SetUnbreakable(Child(node, 3), node) ELSE <<>>)
    \o SetUnbreakable(Child(node, Len(Children(node)) - 1), node)
    \o DefaultNodeVisitCalls(node)

RECURSIVE SkipSimpleStmt(_, _)
SkipSimpleStmt(node, colon_idx) ==
  IF NodeName(Child(node, colon_idx)) = "simple_stmt"
  THEN SkipSimpleStmt(node, colon_idx + 1)
  ELSE colon_idx

RECURSIVE FindColon(_, _)
FindColon(node, colon_idx) ==
  IF colon_idx <= Len(Children(node))
     /\ ~(At(Child(node, colon_idx)).leaf /\ At(Child(node, colon_idx)).value = ":")
  THEN FindColon(node, colon_idx + 1)
  ELSE colon_idx

funcdef_calls(node) ==
  LET name_idx == SkipSimpleStmt(node, 2)
  IN  SetUnbreakable(Child(node, name_idx), node)
        \o SetUnbreakable(Child(node, FindColon(node, name_idx)), node)
        \o DefaultNodeVisitCalls(node)

lambdef_calls(node) ==
  LET lambda_has_arglist == NodeName(Child(node, 2)) # "COLON"
  IN  SetUnbreakableOnChildren(node, IF lambda_has_arglist THEN 3 ELSE 2)

parameters_calls(node) ==
  DefaultNodeVisitCalls(node)
    \o SetUnbreakable(Child(node, 1), node)
    \o (IF Len(Children(node)) = 2 THEN SetStronglyConnected(Child(node, 2), node) ELSE <<>>)

dotted_name_calls(node) == SetUnbreakableOnChildren(node, Len(Children(node)))

RECURSIVE dictsetmaker_loop(_, _)
dictsetmaker_loop(node, i) ==
  IF i > Len(Children(node)) THEN <<>>
  ELSE <<VisitCall(Child(node, i))>>
         \o (IF NodeName(Child(node, i)) = "COLON"
             THEN SetStronglyConnected(Child(node, i - 1), node)
                    \o SetStronglyConnected(Child(node, i), node)
             ELSE <<>>)
         \o dictsetmaker_loop(node, i + 1)

dictsetmaker_calls(node) == dictsetmaker_loop(node, 1)

comparison_calls(node) == DefaultNodeVisitCalls(node) \o SetArithmeticExpression(node)

arith_expr_calls(node) == DefaultNodeVisitCalls(node) \o SetArithmeticExpression(node)

term_calls(node) == DefaultNodeVisitCalls(node) \o SetArithmeticExpression(node)

trailer_calls(node) ==
  DefaultNodeVisitCalls(node)
    \o (IF At(Child(node, 1)).value = "."
        THEN SetStronglyConnected(Child(node, 1), node)
               \o SetStronglyConnected(LastChild(node), node)
        ELSE IF At(Child(node, 1)).value = "["
        THEN SetStronglyConnected(LastChild(node), node)
        ELSE <<>>)

\* Variant: the opening parenthesis is compared with ')'.
surrounded_by_parens_Typo(node) ==
  /\ node # <<>>
  /\ NodeName(Parent(node)) = "atom"
  /\ At(Child(Parent(node), 1)).leaf
  /\ At(Child(Parent(node), 1)).value = ")"
  /\ At(LastChild(Parent(node))).leaf
  /\ At(LastChild(Parent(node))).value = ")"

surrounded_by_parens(node) ==
  /\ node # <<>>
  /\ NodeName(Parent(node)) = "atom"
  /\ At(Child(Parent(node), 1)).leaf
  /\ At(Child(Parent(node), 1)).value = "("
  /\ At(LastChild(Parent(node))).leaf
  /\ At(LastChild(Parent(node))).value = ")"

RECURSIVE trailer_loop(_, _)
trailer_loop(node, prev_trailer_idx) ==
  IF prev_trailer_idx < Len(Children(node))
  THEN LET cur_trailer_idx == prev_trailer_idx + 1
           prev_trailer == Child(node, prev_trailer_idx)
           cur_trailer == Child(node, cur_trailer_idx)
       IN  IF NodeName(cur_trailer) = "trailer"
           THEN (IF At(LastChild(prev_trailer)).value # ")"
                 THEN SetUnbreakable(LastChild(prev_trailer), node) ELSE <<>>)
                  \o (IF ~surrounded_by_parens(node)
                      THEN SetUnbreakable(Child(cur_trailer, 1), node) ELSE <<>>)
                  \o trailer_loop(node, cur_trailer_idx)
           ELSE <<>>
  ELSE <<>>

\* Variant: the loop stops at the first trailer that is not a call with arguments.
RECURSIVE closing_paren_loop_Break(_, _)
closing_paren_loop_Break(node, i) ==
  IF i > Len(Children(node)) THEN <<>>
  ELSE IF NodeName(Child(node, i)) # "trailer" THEN <<>>
  ELSE IF At(Child(Child(node, i), 1)).value = "(" /\ Len(Children(Child(node, i))) > 2
  THEN SetUnbreakable(LastChild(Child(node, i)), node) \o closing_paren_loop_Break(node, i + 1)
  ELSE <<>>

RECURSIVE closing_paren_loop(_, _)
closing_paren_loop(node, i) ==
  IF i > Len(Children(node)) THEN <<>>
  ELSE IF NodeName(Child(node, i)) # "trailer" THEN <<>>
  ELSE (IF At(Child(Child(node, i), 1)).value = "(" /\ Len(Children(Child(node, i))) > 2
        THEN SetUnbreakable(LastChild(Child(node, i)), node) ELSE <<>>)
         \o closing_paren_loop(node, i + 1)

\* Variant: the first trailer's first token is not marked.
power_calls_NoFirst(node) ==
  DefaultNodeVisitCalls(node)
    \o (IF Len(Children(node)) > 1 /\ NodeName(Child(node, 2)) = "trailer"
        THEN trailer_loop(node, 2)
        ELSE <<>>)
    \o closing_paren_loop(node, 2)

power_calls(node) ==
  DefaultNodeVisitCalls(node)
    \o (IF Len(Children(node)) > 1 /\ NodeName(Child(node, 2)) = "trailer"
        THEN SetUnbreakable(Child(Child(node, 2), 1), node) \o trailer_loop(node, 2)
        ELSE <<>>)
    \o closing_paren_loop(node, 2)

subscript_calls(node) ==
  SetStronglyConnectedFrom(node, 1, node) \o DefaultNodeVisitCalls(node)

\* Variant: the marking starts one child too late.
comp_for_calls_FromThird(node) ==
  SetStronglyConnectedFrom(node, 3, node) \o DefaultNodeVisitCalls(node)

\* Variant: the children are visited before the clause is marked.
comp_for_calls_VisitFirst(node) ==
  DefaultNodeVisitCalls(node) \o SetStronglyConnectedFrom(node, 2, node)

comp_for_calls(node) ==
  SetStronglyConnectedFrom(node, 2, node) \o DefaultNodeVisitCalls(node)

comp_if_calls(node) ==
  <<Call("SetNodeAnnotation", Child(node, 1), None, node)>>
    \o SetStronglyConnectedFrom(node, 2, node)
    \o DefaultNodeVisitCalls(node)

\* ------------------------------------------------------------ leaf updates

\* Variant: a leaf without an annotation is left alone.
RecAnnotateLeaf_SkipNone(cur_annotate, annotate_value) ==
  IF cur_annotate # None /\ cur_annotate < annotate_value
  THEN annotate_value
  ELSE cur_annotate

\* Variant: the value is stored whatever the leaf carries.
RecAnnotateLeaf_Overwrite(cur_annotate, annotate_value) == annotate_value

\* _RecAnnotate on a leaf: only ever increase the penalty.
RecAnnotateLeaf(cur_annotate, annotate_value) ==
  IF cur_annotate = None \/ cur_annotate < annotate_value
  THEN annotate_value
  ELSE cur_annotate

\* Variant: the comparison is turned around.
LessThan_Flipped(cur_annotate, annotate_value, version) ==
  IF cur_annotate = None
  THEN (IF version = 2 THEN "True" ELSE "TypeError")
  ELSE (IF cur_annotate > annotate_value THEN "True" ELSE "False")

\* GetNodeAnnotation(node, SPLIT_PENALTY) < ARITHMETIC_EXPRESSION.  The annotation
\* of a leaf no rule has written, or that was cleared, is None.  Python 2 orders
\* None below every number; Python 3 raises TypeError for None < 42.
LessThan(cur_annotate, annotate_value, version) ==
  IF cur_annotate = None
  THEN (IF version = 2 THEN "True" ELSE "TypeError")
  ELSE (IF cur_annotate < annotate_value THEN "True" ELSE "False")

Larger(a, b) == IF a = None THEN b ELSE IF b = None THEN a ELSE IF a < b THEN b ELSE a

\* ------------------------------------------------------------------ actions

Init ==
  /\ tree \in Trees
  /\ py \in {2, 3}
  /\ pen = Unannotated
  /\ pc = "idle"
  /\ stack = <<>>
  /\ runs = 0
  /\ prev = Unannotated
  /\ attempted = Unannotated
  /\ since = Unannotated
  /\ cleared = {}

\* The call on top of the stack.
Top == Head(stack)

Executing(op) == pc = "running" /\ Top.op = op

Visiting(name) == Executing("Visit") /\ NodeName(Top.node) = name

\* The visitor returns to its caller when no call is pending.
Continue(rest) ==
  /\ stack' = rest
  /\ pc' = IF rest = <<>> THEN "done" ELSE "running"

Enter(calls) ==
  /\ Continue(calls \o <<Call("Return", Top.node, None, Top.node)>> \o Tail(stack))
  /\ UNCHANGED <<tree, py, pen, runs, prev, attempted, since, cleared>>

ComputeSplitPenalties ==
  /\ pc # "running"
  /\ runs < MaxRuns
  /\ pc' = "running"
  /\ stack' = <<VisitCall(<<>>)>>
  /\ runs' = runs + 1
  /\ prev' = pen
  /\ attempted' = Unannotated
  /\ since' = Unannotated
  /\ cleared' = {}
  /\ UNCHANGED <<tree, py, pen>>

Visit_classdef == Visiting("classdef") /\ Enter(classdef_calls(Top.node))

Visit_funcdef == Visiting("funcdef") /\ Enter(funcdef_calls(Top.node))

Visit_lambdef == Visiting("lambdef") /\ Enter(lambdef_calls(Top.node))

Visit_parameters == Visiting("parameters") /\ Enter(parameters_calls(Top.node))

Visit_dotted_name == Visiting("dotted_name") /\ Enter(dotted_name_calls(Top.node))

Visit_dictsetmaker == Visiting("dictsetmaker") /\ Enter(dictsetmaker_calls(Top.node))

Visit_comparison == Visiting("comparison") /\ Enter(comparison_calls(Top.node))

Visit_arith_expr == Visiting("arith_expr") /\ Enter(arith_expr_calls(Top.node))

Visit_term == Visiting("term") /\ Enter(term_calls(Top.node))

Visit_trailer == Visiting("trailer") /\ Enter(trailer_calls(Top.node))

Visit_power == Visiting("power") /\ Enter(power_calls(Top.node))

Visit_subscript == Visiting("subscript") /\ Enter(subscript_calls(Top.node))

Visit_comp_for == Visiting("comp_for") /\ Enter(comp_for_calls(Top.node))

Visit_comp_if == Visiting("comp_if") /\ Enter(comp_if_calls(Top.node))

\* The productions _TreePenaltyAssigner defines a Visit_ method for.
Handled ==
  {"classdef", "funcdef", "lambdef", "parameters", "dotted_name", "dictsetmaker",
   "comparison", "arith_expr", "term", "trailer", "power", "subscript", "comp_for",
   "comp_if"}

\* PyTreeVisitor.Visit on a node without a Visit_ method.
DefaultNodeVisit ==
  /\ Executing("Visit")
  /\ ~At(Top.node).leaf
  /\ NodeName(Top.node) \notin Handled
  /\ Enter(DefaultNodeVisitCalls(Top.node))

\* PyTreeVisitor.Visit on a token: no method matches a token name, nothing is done.
DefaultLeafVisit ==
  /\ Executing("Visit")
  /\ At(Top.node).leaf
  /\ NodeName(Top.node) \notin Handled
  /\ Continue(Tail(stack))
  /\ UNCHANGED <<tree, py, pen, runs, prev, attempted, since, cleared>>

\* A handler, or the default visit of an interior node, returns.
Return ==
  /\ Executing("Return")
  /\ Continue(Tail(stack))
  /\ UNCHANGED <<tree, py, pen, runs, prev, attempted, since, cleared>>

\* One call of _RecAnnotate: the recursion into the children, or the leaf's update.
RecAnnotate ==
  /\ Executing("RecAnnotate")
  /\ IF At(Top.node).leaf
     THEN /\ pen' = [pen EXCEPT ![Top.node] = RecAnnotateLeaf(@, Top.val)]
          /\ attempted' = [attempted EXCEPT ![Top.node] = Larger(@, Top.val)]
          /\ since' = [since EXCEPT ![Top.node] = Larger(@, Top.val)]
          /\ Continue(Tail(stack))
     ELSE /\ Continue([i \in 1..Len(Children(Top.node)) |->
                         Call("RecAnnotate", Child(Top.node, i), Top.val, Top.by)]
                      \o Tail(stack))
          /\ UNCHANGED <<pen, attempted, since>>
  /\ UNCHANGED <<tree, py, runs, prev, cleared>>

\* pytree_utils.SetNodeAnnotation(node.children[0], SPLIT_PENALTY, None) of Visit_comp_if.
SetNodeAnnotationNone ==
  /\ Executing("SetNodeAnnotation")
  /\ pen' = [l \in Leaves |-> IF l = Top.node THEN Top.val ELSE pen[l]]
  /\ since' = [l \in Leaves |-> IF l = Top.node THEN None ELSE since[l]]
  /\ cleared' = cleared \cup ({Top.node} \cap Leaves)
  /\ Continue(Tail(stack))
  /\ UNCHANGED <<tree, py, runs, prev, attempted>>

\* One call of RecArithmeticExpression(node, first_child_leaf).
RecArithmeticExpression ==
  /\ Executing("RecArithmeticExpression")
  /\ IF Top.node = FirstChildNode(Top.by)
     THEN /\ Continue(Tail(stack))
          /\ UNCHANGED <<pen, attempted, since>>
     ELSE IF At(Top.node).leaf
     THEN LET less == LessThan(pen[Top.node], Top.val, py)
          IN  /\ pen' = IF less = "True" THEN [pen EXCEPT ![Top.node] = Top.val] ELSE pen
              /\ attempted' = [attempted EXCEPT ![Top.node] = Larger(@, Top.val)]
              /\ since' = [since EXCEPT ![Top.node] = Larger(@, Top.val)]
              /\ IF less = "TypeError"
                 THEN pc' = "raised" /\ stack' = <<>>
                 ELSE Continue(Tail(stack))
     ELSE /\ Continue([i \in 1..Len(Children(Top.node)) |->
                         Call("RecArithmeticExpression", Child(Top.node, i), Top.val, Top.by)]
                      \o Tail(stack))
          /\ UNCHANGED <<pen, attempted, since>>
  /\ UNCHANGED <<tree, py, runs, prev, cleared>>

Next ==
  \/ ComputeSplitPenalties
  \/ Visit_classdef
  \/ Visit_funcdef
  \/ Visit_lambdef
  \/ Visit_parameters
  \/ Visit_dotted_name
  \/ Visit_dictsetmaker
  \/ Visit_comparison
  \/ Visit_arith_expr
  \/ Visit_term
  \/ Visit_trailer
  \/ Visit_power
  \/ Visit_subscript
  \/ Visit_comp_for
  \/ Visit_comp_if
  \/ DefaultNodeVisit
  \/ DefaultLeafVisit
  \/ Return
  \/ RecAnnotate
  \/ SetNodeAnnotationNone
  \/ RecArithmeticExpression

Spec == Init /\ [][Next]_vars

TypeOK ==
  /\ tree \in Trees
  /\ py \in {2, 3}
  /\ pc \in {"idle", "running", "done", "raised"}
  /\ (pc = "running") = (stack # <<>>)
  /\ runs \in 0..MaxRuns
  /\ \A l \in Leaves :
       pen[l] \in {None, ARITHMETIC_EXPRESSION, STRONGLY_CONNECTED, UNBREAKABLE}

\* ------------------------------------------------------------------ claims

Ended == pc \in {"done", "raised"}

Returned == pc = "done"

Present(l) == pen[l] # None

AtLeast(l, value) == pen[l] # None /\ pen[l] >= value

\* The leading `if` tokens of the comprehension if-clauses of the tree.
FilterTokens ==
  { Child(c, 1) : c \in { n \in PathsUnder(tree, <<>>) : NodeName(n) = "comp_if" } }

\* C1. Idempotence: a second ComputeSplitPenalties on the already annotated tree
\* leaves every leaf's SplitPenalty (absent ones included) as the first call left
\* it, also for trees with comprehension if-clauses, whose rule clears a penalty.
C1_Idempotent == (Ended /\ runs >= 2) => pen = prev

\* A second call has returned on a tree one of whose if-clauses cleared its `if`
\* token, which an enclosing arithmetic rule raised again afterwards.
C1_Witness ==
  /\ Returned /\ runs = 2
  /\ \E l \in cleared : pen[l] = ARITHMETIC_EXPRESSION
  /\ \E l \in Leaves : pen[l] = UNBREAKABLE \/ pen[l] = STRONGLY_CONNECTED

\* C2 as stated. Monotonicity of the result: when the call finishes, every leaf
\* without exception carries a penalty >= every value a rule wrote or tried to
\* write to it during the call.
C2_Original ==
  Returned => \A l \in Leaves : attempted[l] # None => AtLeast(l, attempted[l])

\* C2 as amended. The same for every leaf that is not the leading `if` token of a
\* comprehension if-clause; for such a token it holds of the values written after
\* the clause's clear, and only those tokens are ever cleared.
C2_Amended ==
  /\ cleared \subseteq FilterTokens
  /\ Returned =>
       /\ \A l \in Leaves \ FilterTokens :
            attempted[l] # None => AtLeast(l, attempted[l])
       /\ \A l \in Leaves : since[l] # None => AtLeast(l, since[l])

\* The call has returned; a leaf that a rule marked STRONGLY_CONNECTED kept it, and an
\* `if` token marked STRONGLY_CONNECTED and then cleared was raised to ARITHMETIC
\* after the clear.
C2_Witness ==
  /\ Returned
  /\ \E l \in Leaves \ FilterTokens : attempted[l] = STRONGLY_CONNECTED
  /\ \E l \in cleared :
       attempted[l] = STRONGLY_CONNECTED /\ since[l] = ARITHMETIC_EXPRESSION

\* The step about to be taken stores (or tries to store) Top.val in the leaf Top.node.
LeafWrite ==
  /\ pc = "running"
  /\ At(Top.node).leaf
  /\ \/ Top.op = "RecAnnotate"
     \/ Top.op = "RecArithmeticExpression" /\ Top.node # FirstChildNode(Top.by)

\* The step about to be taken is the clear of an if-clause's leading `if` token.
FilterClear ==
  /\ pc = "running"
  /\ Top.op = "SetNodeAnnotation"
  /\ NodeName(Top.by) = "comp_if"
  /\ Top.node = Child(Top.by, 1)
  /\ At(Top.node).leaf /\ At(Top.node).value = "if"

\* C3. Never-lower step property: every write step leaves the written leaf at
\* max(old, candidate), absent counting as lower than any value; the only step that
\* lowers a penalty is the clear of the comprehension if-clause rule, and it targets
\* the leading `if` token (first child) of the clause being visited and no other leaf.
C3_NeverLower ==
  [][ /\ (LeafWrite /\ pc' # "raised") =>
           pen' = [pen EXCEPT ![Top.node] = Larger(@, Top.val)]
      /\ \A l \in Leaves :
           pen'[l] # pen[l] =>
             \/ LeafWrite /\ l = Top.node /\ pen'[l] = Larger(pen[l], Top.val)
             \/ FilterClear /\ l = Top.node /\ pen'[l] = None /\ pen[l] # None
    ]_vars

\* A write step is about to offer a leaf less than it carries, in a call that has
\* already cleared an `if` token carrying STRONGLY_CONNECTED.
C3_Witness ==
  /\ LeafWrite
  /\ Present(Top.node) /\ pen[Top.node] > Top.val
  /\ \E l \in cleared : attempted[l] = STRONGLY_CONNECTED

Nodes == PathsUnder(tree, <<>>)

PowerNodes == { n \in Nodes : NodeName(n) = "power" }

\* The positions of the trailers that follow the atom of power node n without a gap.
TrailerRun(n) ==
  { i \in 2..Len(Children(n)) : \A j \in 2..i : NodeName(Child(n, j)) = "trailer" }

FirstToken(trailer) == Child(trailer, 1)

LastToken(trailer) == LastChild(trailer)

Opens(trailer, text) == At(FirstToken(trailer)).value = text

\* The direct parent of n is an atom that starts with '(' and ends with ')'.
ParenthesizedParent(n) ==
  /\ n # <<>>
  /\ NodeName(Parent(n)) = "atom"
  /\ At(Child(Parent(n), 1)).leaf /\ At(Child(Parent(n), 1)).value = "("
  /\ At(LastChild(Parent(n))).leaf /\ At(LastChild(Parent(n))).value = ")"

\* C4. Unparenthesized trailer chain: for a power node whose parent is not a
\* parenthesized atom, after the call the first token of every trailer of the run
\* that follows the atom is UNBREAKABLE, and so is the name of every `.NAME` trailer
\* that another trailer follows; the power rule writes nothing into the atom, whose
\* first token stays absent when no other rule covers it.
C4_TrailerChain ==
  /\ \A i \in 1..Len(stack) :
       (stack[i].op = "RecAnnotate" /\ NodeName(stack[i].by) = "power")
         => ~IsPrefix(Child(stack[i].by, 1), stack[i].node)
  /\ Returned =>
       \A n \in PowerNodes :
         ~ParenthesizedParent(n) =>
           /\ \A i \in TrailerRun(n) :
                /\ pen[FirstToken(Child(n, i))] = UNBREAKABLE
                /\ (Opens(Child(n, i), ".") /\ (i + 1) \in TrailerRun(n))
                     => pen[LastToken(Child(n, i))] = UNBREAKABLE
           /\ (n = <<>> /\ TrailerRun(n) # {}) => pen[FirstChildNode(n)] = None

\* The call has returned on a bare chain of three trailers at the root that starts
\* with two attribute accesses: a.b.b(1), a.b.b[2], ...
C4_Witness ==
  /\ Returned
  /\ NodeName(<<>>) = "power"
  /\ TrailerRun(<<>>) = {2, 3, 4}
  /\ Opens(<<2>>, ".") /\ Opens(<<3>>, ".")
  /\ pen[<<3, 2>>] = UNBREAKABLE /\ pen[<<4, 1>>] = UNBREAKABLE

NonEmptyCall(trailer) ==
  /\ Opens(trailer, "(")
  /\ Len(Children(trailer)) > 2
  /\ At(LastToken(trailer)).value = ")"

EmptyCall(trailer) == Opens(trailer, "(") /\ Len(Children(trailer)) = 2

\* The trailers of power node n that another trailer follows.
FollowedTrailers(n) == { i \in TrailerRun(n) : (i + 1) \in TrailerRun(n) }

\* C7 as stated. Consecutive-trailer boundary: for adjacent trailers i, i+1 the last
\* token of trailer i is UNBREAKABLE after the call unless trailer i is a call with
\* a non-empty argument list; an empty call `()`, an attribute access and a
\* subscript are not excepted.
C7_Original ==
  Returned =>
    \A n \in PowerNodes : \A i \in FollowedTrailers(n) :
      ~NonEmptyCall(Child(n, i)) => pen[LastToken(Child(n, i))] = UNBREAKABLE

\* C7 as amended. The last token of trailer i is UNBREAKABLE after the call unless
\* trailer i is an empty call `()`; a call with arguments, an attribute access and a
\* subscript are not excepted.
C7_Amended ==
  Returned =>
    \A n \in PowerNodes : \A i \in FollowedTrailers(n) :
      ~EmptyCall(Child(n, i)) => pen[LastToken(Child(n, i))] = UNBREAKABLE

\* The call has returned on a chain a(1)()... : the `)` of the call with an argument
\* is UNBREAKABLE, the `)` of the empty call that a trailer follows is not.
C7_Witness ==
  /\ Returned
  /\ \E n \in PowerNodes :
       /\ \E i \in FollowedTrailers(n) :
            NonEmptyCall(Child(n, i)) /\ pen[LastToken(Child(n, i))] = UNBREAKABLE
       /\ \E i \in FollowedTrailers(n) :
            EmptyCall(Child(n, i)) /\ pen[LastToken(Child(n, i))] # UNBREAKABLE

\* The calls the handler of a node makes (PyTreeVisitor.Visit's dispatch on the name).
HandlerCalls(node) ==
  CASE NodeName(node) = "classdef" -> classdef_calls(node)
    [] NodeName(node) = "funcdef" -> funcdef_calls(node)
    [] NodeName(node) = "lambdef" -> lambdef_calls(node)
    [] NodeName(node) = "parameters" -> parameters_calls(node)
    [] NodeName(node) = "dotted_name" -> dotted_name_calls(node)
    [] NodeName(node) = "dictsetmaker" -> dictsetmaker_calls(node)
    [] NodeName(node) = "comparison" -> comparison_calls(node)
    [] NodeName(node) = "arith_expr" -> arith_expr_calls(node)
    [] NodeName(node) = "term" -> term_calls(node)
    [] NodeName(node) = "trailer" -> trailer_calls(node)
    [] NodeName(node) = "power" -> power_calls(node)
    [] NodeName(node) = "subscript" -> subscript_calls(node)
    [] NodeName(node) = "comp_for" -> comp_for_calls(node)
    [] NodeName(node) = "comp_if" -> comp_if_calls(node)
    [] OTHER -> <<>>

\* The subtrees the rule of node a marks.
RuleTargets(a) ==
  { HandlerCalls(a)[k].node :
      k \in { j \in 1..Len(HandlerCalls(a)) : HandlerCalls(a)[j].op # "Visit" } }

\* Some rule of a proper ancestor of n marks a subtree that holds all of n.
UnderMarkingRule(n) ==
  \E k \in 0..(Len(n) - 1) :
    \E t \in RuleTargets(SubSeq(n, 1, k)) : IsPrefix(t, n)

\* C10. Parenthesized escape hatch: for a power node whose direct parent is an atom
\* `( ... )` and that lies under no other rule marking the whole chain, after the
\* call the first token of the first trailer is UNBREAKABLE and the first token of
\* every later trailer is below it (STRONGLY_CONNECTED for a dot, absent for `(` or
\* `[`); for a chain whose parent is not such an atom that token is UNBREAKABLE.
C10_EscapeHatch ==
  Returned =>
    \A n \in PowerNodes :
      (TrailerRun(n) # {} /\ ~UnderMarkingRule(n)) =>
        IF ParenthesizedParent(n)
        THEN /\ pen[FirstToken(Child(n, 2))] = UNBREAKABLE
             /\ \A i \in TrailerRun(n) \ {2} :
                  /\ Opens(Child(n, i), ".")
                       => pen[FirstToken(Child(n, i))] = STRONGLY_CONNECTED
                  /\ (Opens(Child(n, i), "(") \/ Opens(Child(n, i), "["))
                       => pen[FirstToken(Child(n, i))] = None
        ELSE \A i \in TrailerRun(n) \ {2} :
               pen[FirstToken(Child(n, i))] = UNBREAKABLE

\* The call has returned on a parenthesized chain of three trailers whose second
\* trailer opens with a dot and whose third with `(` or `[`.
C10_Witness ==
  /\ Returned
  /\ \E n \in PowerNodes :
       /\ ParenthesizedParent(n) /\ ~UnderMarkingRule(n)
       /\ TrailerRun(n) = {2, 3, 4}
       /\ Opens(Child(n, 3), ".") /\ ~Opens(Child(n, 4), ".")
       /\ pen[FirstToken(Child(n, 3))] = STRONGLY_CONNECTED
       /\ pen[FirstToken(Child(n, 4))] = None

Clauses == {"comp_for", "comp_if"}

\* The leaves of a for-clause that come after its leading `for` keyword.
AfterFor(n) == LeavesUnder(n) \ {Child(n, 1)}

\* C8 as stated. Comprehension for-clause: after the call completes every leaf of a
\* comp_for after its leading `for`, the leaves of nested for- and if-clauses
\* included, has a penalty of at least STRONGLY_CONNECTED.
C8_Original ==
  Returned =>
    \A n \in { m \in Nodes : NodeName(m) = "comp_for" } :
      \A l \in AfterFor(n) : AtLeast(l, STRONGLY_CONNECTED)

\* C8 as amended. The same, except for the leading `if` token of each if-clause
\* inside the for-clause, which that clause's rule clears.
C8_Amended ==
  Returned =>
    \A n \in { m \in Nodes : NodeName(m) = "comp_for" } :
      \A l \in AfterFor(n) \ FilterTokens : AtLeast(l, STRONGLY_CONNECTED)

\* The call has returned on a for-clause that holds a nested for-clause, whose `for`
\* keyword is STRONGLY_CONNECTED, and an if-clause, whose `if` token is absent.
C8_Witness ==
  /\ Returned
  /\ \E n \in Nodes :
       /\ NodeName(n) = "comp_for"
       /\ \E m \in Nodes :
            /\ m # n /\ IsPrefix(n, m) /\ NodeName(m) = "comp_for"
            /\ pen[Child(m, 1)] = STRONGLY_CONNECTED
       /\ \E l \in FilterTokens : IsPrefix(n, l) /\ pen[l] = None

\* A comprehension clause that is not the comp_iter of another clause.
OutermostClause(n) ==
  /\ NodeName(n) \in Clauses
  /\ n = <<>> \/ NodeName(Parent(n)) \notin Clauses

\* The clauses of the comprehension that starts at clause n: n, its comp_iter, ...
RECURSIVE Chain(_)
Chain(n) ==
  {n} \cup (IF NodeName(LastChild(n)) \in Clauses THEN Chain(LastChild(n)) ELSE {})

Filters(S) == { c \in S : NodeName(c) = "comp_if" }

\* The filter's leading `if` token is absent and its other tokens are marked.
FilterReopened(c) ==
  /\ pen[Child(c, 1)] = None
  /\ \A l \in LeavesUnder(c) \ FilterTokens : AtLeast(l, STRONGLY_CONNECTED)

\* The enclosing clause wrote STRONGLY_CONNECTED to a nested filter's `if` token
\* before the filter's rule clears it, and no pending write of a clause rule covers
\* a token already cleared.
ClearOrder ==
  /\ (FilterClear /\ Top.by # <<>> /\ NodeName(Parent(Top.by)) \in Clauses)
       => (attempted[Top.node] = STRONGLY_CONNECTED
           /\ AtLeast(Top.node, STRONGLY_CONNECTED))
  /\ \A i \in 1..Len(stack) :
       (stack[i].op = "RecAnnotate" /\ NodeName(stack[i].by) \in Clauses)
         => \A l \in cleared : ~IsPrefix(stack[i].node, l)

\* C9 as stated. Ordering of the filter clear: the enclosing rule's write to the
\* filter's `if` token precedes the clear and no later step of the clause rules
\* writes it again; hence, when the visit of the outermost comprehension clause
\* returns, the `if` token of every filter in it is absent and the other tokens of
\* the filter are marked.
C9_Original ==
  /\ ClearOrder
  /\ (Executing("Return") /\ OutermostClause(Top.node))
       => \A c \in Filters({ m \in Nodes : IsPrefix(Top.node, m) }) : FilterReopened(c)

\* C9 as amended. The same for every filter of the comprehension the outermost
\* clause starts (the clause and its chain of comp_iter clauses); a filter of a
\* comprehension nested in one of its expressions is not covered.
C9_Amended ==
  /\ ClearOrder
  /\ (Executing("Return") /\ OutermostClause(Top.node))
       => \A c \in Filters(Chain(Top.node)) : FilterReopened(c)

\* The visit of an outermost clause with two filters in its chain is returning:
\* both `if` tokens were marked STRONGLY_CONNECTED and are absent now.
C9_Witness ==
  /\ Executing("Return") /\ OutermostClause(Top.node)
  /\ \E c, d \in Filters(Chain(Top.node)) :
       /\ c # d
       /\ attempted[Child(c, 1)] = STRONGLY_CONNECTED /\ pen[Child(c, 1)] = None
       /\ attempted[Child(d, 1)] = STRONGLY_CONNECTED /\ pen[Child(d, 1)] = None

\* C5. Arithmetic-chain rule: applied to a comparison, arith_expr or term subtree it
\* leaves the subtree's first leaf as it is and every other leaf of the subtree at
\* max(old, ARITHMETIC): an absent penalty becomes 42, a penalty of 42 or more stays.
C5_ArithmeticChain ==
  [][ (pc = "running" /\ Top.op = "RecArithmeticExpression" /\ At(Top.node).leaf) =>
        IF Top.node = FirstChildNode(Top.by)
        THEN pen' = pen
        ELSE /\ pc' # "raised"
             /\ pen' = [pen EXCEPT ![Top.node] = Larger(@, ARITHMETIC_EXPRESSION)]
    ]_vars

Arithmetic == {"comparison", "arith_expr", "term"}

\* The children of lambdef n that precede the body, the keyword excepted.
LambdaPrefix(n) == { Child(n, i) : i \in 2..(Len(Children(n)) - 1) }

\* C6. Lambda expression: after the call on a lambda every leaf of the parameter
\* list (when present) and the terminating colon are UNBREAKABLE; the body is
\* annotated by its own rules: when it is an arithmetic chain such as `x + y`, every
\* body leaf but the first has at least ARITHMETIC, and the first body leaf gets no
\* penalty from the lambda rule or the arithmetic rule.
C6_Lambda ==
  Ended =>
    \A n \in { m \in Nodes : NodeName(m) = "lambdef" } :
      /\ \A c \in LambdaPrefix(n) : \A l \in LeavesUnder(c) : pen[l] = UNBREAKABLE
      /\ NodeName(LastChild(n)) \in Arithmetic =>
           \A l \in LeavesUnder(LastChild(n)) \ {FirstChildNode(LastChild(n))} :
             AtLeast(l, ARITHMETIC_EXPRESSION)
      /\ n = <<>> => pen[FirstChildNode(LastChild(n))] = None

====
